---- MODULE Spec2Model ----
(***************************************************************************)
(* Model of macro_parser.py: extract_macros_from_xlsm, a linear pipeline   *)
(* with early returns and two exception handlers, run inside a scoped      *)
(* temporary directory, and the command-line driver main.                  *)
(*                                                                         *)
(* The file system, the zip archive and the olevba decoder are the         *)
(* environment: the file at the given path, the archive's entry names and  *)
(* what the decoder reports are inputs fixed in Init; every library call   *)
(* that touches the disk or the decoder can also raise.                    *)
(***************************************************************************)
EXTENDS Integers, Sequences, FiniteSets, TLC

\* ---------------------------------------------------------------- bounds
MaxTuples == 2      \* tuples the decoder's extract_macros() can yield
MaxCalls  == 2      \* calls a library user makes on the same unchanged file
MaxArgs   == 2      \* command-line arguments after the program name

\* ---------------------------------------------------------------- inputs
vba_project_path_in_zip == "xl/vbaProject.bin"

EntryNames == {"xl/vbaProject.bin", "xl/workbook.xml", "word/vbaProject.bin"}

\* os.path.join(temp_dir, vba_project_path_in_zip): the container file olevba reports
vba_project_path == "tmp/xl/vbaProject.bin"

Modules == {<<"VBA/ThisWorkbook", "ThisWorkbook.cls">>, <<"VBA/Module1", "Module1.bas">>}
Codes   == {"", "Sub Test()"}

\* (filename, stream_path, vba_filename, vba_code) as yielded by extract_macros()
DecoderTuples == {<<vba_project_path, m[1], m[2], c>> : m \in Modules, c \in Codes}

SeqsUpTo(S, n) == UNION {[1..k -> S] : k \in 0..n}

Files == {[kind |-> "missing", names |-> {}], [kind |-> "notzip", names |-> {}]}
         \cup {[kind |-> "zip", names |-> ns] : ns \in SUBSET EntryNames}

ArgvTail == <<"f.xlsm", "extra", "extra", "extra">>

Argvs == {<<"macro_parser.py">> \o SubSeq(ArgvTail, 1, k) : k \in 0..MaxArgs}

NoExit == -1

VARIABLES
  caller,            \* "main": the script is run; "lib": the function is imported and called
  sys_argv,          \* sys.argv
  file,              \* what the file system holds at the path
  detects,           \* what detect_vba_macros() answers
  tuples,            \* what extract_macros() yields, in order
  pc,                \* position in the code
  calls,             \* calls of extract_macros_from_xlsm started so far
  macros,            \* local `macros`
  retval,            \* value of the pending `return`
  temp_dir,          \* TRUE while the temporary directory exists on disk
  temp_file,         \* TRUE while (part of) the extracted vbaProject.bin exists on disk
  zip_ref,           \* TRUE while the archive is open
  vba_parser,        \* "unbound", "open" or "closed"
  idx,               \* tuples consumed from the extract_macros() generator
  reported,          \* conditions printed by the current call, in order
  ctorCalls,         \* olevba.VBA_Parser(...) calls in the current call
  closeCalls,        \* vba_parser.close() calls in the current call
  extractCalls,      \* zip_ref.extract(...) calls in the current call
  openCalls,         \* zipfile.ZipFile(...) calls in the current call
  faulted,           \* a library call raised for an environmental reason in the current call
  history,           \* one entry per call that returned: its result and whether it faulted
  extracted_macros,  \* main's local
  cliOut,            \* lines main printed
  exitCode           \* process exit status, NoExit while running

inputs == <<caller, sys_argv, file, detects, tuples>>
locals == <<macros, retval, vba_parser, idx>>
disk   == <<temp_dir, temp_file, zip_ref>>
counts == <<ctorCalls, closeCalls, extractCalls, openCalls>>
cli    == <<extracted_macros, cliOut, exitCode>>
vars   == <<inputs, pc, calls, locals, disk, reported, counts, faulted, history, cli>>

\* ---------------------------------------------------------------- helpers
\* variant: the existence check is missing
os_path_exists_always(f) == TRUE

\* os.path.exists(file_path)
os_path_exists(f) == f.kind # "missing"

\* variant: any entry at all counts as the macro project
InNamelist_any(name, names) == names # {}

\* vba_project_path_in_zip not in zip_ref.namelist()
InNamelist(name, names) == name \in names

\* variant: the list outlives the call (a module-level or default-argument list)
FreshMacros_kept(old) == old

\* macros = []
FreshMacros(old) == <<>>

\* variant: the tuple is unpacked one position off
MacroRecord_shifted(t) == [stream_path |-> t[1], vba_filename |-> t[2], vba_code |-> t[3]]

\* the dictionary appended for one tuple\* the dictionary appended for one tuple of extract_macros()
MacroRecord(t) == [stream_path |-> t[2], vba_filename |-> t[3], vba_code |-> t[4]]

\* variant: `except Exception` is listed first and takes everything
HandlerFor_generic(exc) == "except_other"

\* which except clause takes\* which except clause takes an exception raised inside the try block
HandlerFor(exc) == IF exc = "BadZipFile" THEN "except_badzip" ELSE "except_other"

\* variant: the handlers return what was collected so far
HandlerResult_partial(m) == m

\* `return []` of both except clauses
HandlerResult(m) == <<>>

\* variant: the directory is made with mkdtemp() and returns skip the cleanup
ScopedReturn_leak == "return"

\* where control goes on a return inside\* where control goes on a return inside `with tempfile.TemporaryDirectory()`
ScopedReturn == "release"

\* an exception raised inside `with zipfile.ZipFile(...)`: the archive is closed, the handler chosen
Raise(exc) == /\ pc' = HandlerFor(exc)
              /\ zip_ref' = FALSE

Init ==
  /\ caller \in {"main", "lib"}
  /\ sys_argv \in Argvs
  /\ caller = "lib" => sys_argv = <<"macro_parser.py">>
  /\ file \in Files
  /\ detects \in BOOLEAN
  /\ tuples \in SeqsUpTo(DecoderTuples, MaxTuples)
  /\ ~(file.kind = "zip" /\ vba_project_path_in_zip \in file.names)
        => (detects = FALSE /\ tuples = <<>>)
  /\ ~detects => tuples = <<>>
  /\ pc = IF caller = "main" THEN "main" ELSE "idle"
  /\ calls = 0
  /\ macros = <<>>
  /\ retval = <<>>
  /\ temp_dir = FALSE
  /\ temp_file = FALSE
  /\ zip_ref = FALSE
  /\ vba_parser = "unbound"
  /\ idx = 0
  /\ reported = <<>>
  /\ ctorCalls = 0
  /\ closeCalls = 0
  /\ extractCalls = 0
  /\ openCalls = 0
  /\ faulted = FALSE
  /\ history = <<>>
  /\ extracted_macros = <<>>
  /\ cliOut = <<>>
  /\ exitCode = NoExit

\* entry of extract_macros_from_xlsm: a fresh frame
Enter ==
  /\ pc' = "exists"
  /\ calls' = calls + 1
  /\ vba_parser' = "unbound"
  /\ idx' = 0
  /\ retval' = <<>>
  /\ reported' = <<>>
  /\ ctorCalls' = 0
  /\ closeCalls' = 0
  /\ extractCalls' = 0
  /\ openCalls' = 0
  /\ faulted' = FALSE
  /\ UNCHANGED <<inputs, macros, disk, history>>

\* ---------------------------------------------------------------- extract_macros_from_xlsm
\* lines 18-22
ExistsCheck ==
  /\ pc = "exists"
  /\ IF ~os_path_exists(file)
       THEN /\ reported' = Append(reported, "NotFound")
            /\ retval' = <<>>
            /\ pc' = "return"
            /\ UNCHANGED macros
       ELSE /\ macros' = FreshMacros(macros)
            /\ pc' = "mkdtemp"
            /\ UNCHANGED <<reported, retval>>
  /\ UNCHANGED <<inputs, calls, vba_parser, idx, disk, counts, faulted, history, cli>>

\* line 25, entering the with block; it is outside the try
AcquireTemp ==
  /\ pc = "mkdtemp"
  /\ \/ /\ temp_dir' = TRUE
        /\ pc' = "open_zip"
        /\ UNCHANGED faulted
     \/ /\ faulted' = TRUE
        /\ pc' = "propagated"
        /\ UNCHANGED temp_dir
  /\ UNCHANGED <<inputs, calls, locals, temp_file, zip_ref, reported, counts, history, cli>>

\* line 27
OpenZip ==
  /\ pc = "open_zip"
  /\ openCalls' = openCalls + 1
  /\ \/ /\ file.kind = "zip"
        /\ zip_ref' = TRUE
        /\ pc' = "namelist"
        /\ UNCHANGED faulted
     \/ /\ file.kind = "notzip"
        /\ Raise("BadZipFile")
        /\ UNCHANGED faulted
     \/ /\ file.kind = "missing"
        /\ Raise("Exception")
        /\ UNCHANGED faulted
     \/ /\ file.kind # "missing"
        /\ Raise("Exception")
        /\ faulted' = TRUE
  /\ UNCHANGED <<inputs, calls, locals, temp_dir, temp_file, reported,
                 ctorCalls, closeCalls, extractCalls, history, cli>>

\* lines 28-31
EntryLookup ==
  /\ pc = "namelist"
  /\ IF ~InNamelist(vba_project_path_in_zip, file.names)
       THEN /\ reported' = Append(reported, "NoMacroProject")
            /\ retval' = <<>>
            /\ zip_ref' = FALSE
            /\ pc' = ScopedReturn
       ELSE /\ pc' = "extract"
            /\ UNCHANGED <<reported, retval, zip_ref>>
  /\ UNCHANGED <<inputs, calls, macros, vba_parser, idx, temp_dir, temp_file,
                 counts, faulted, history, cli>>

\* lines 34-35
ExtractEntry ==
  /\ pc = "extract"
  /\ extractCalls' = extractCalls + 1
  /\ \/ /\ vba_project_path_in_zip \in file.names
        /\ temp_file' = TRUE
        /\ pc' = "ctor"
        /\ UNCHANGED <<zip_ref, faulted>>
     \/ /\ vba_project_path_in_zip \notin file.names
        /\ Raise("Exception")
        /\ UNCHANGED <<temp_file, faulted>>
     \/ /\ vba_project_path_in_zip \in file.names
        /\ \E exc \in {"BadZipFile", "Exception"} : Raise(exc)
        /\ temp_file' \in BOOLEAN
        /\ faulted' = TRUE
  /\ UNCHANGED <<inputs, calls, locals, temp_dir, reported,
                 ctorCalls, closeCalls, openCalls, history, cli>>

\* line 38
ConstructDecoder ==
  /\ pc = "ctor"
  /\ ctorCalls' = ctorCalls + 1
  /\ \/ /\ vba_parser' = "open"
        /\ pc' = "detect"
        /\ UNCHANGED <<zip_ref, faulted>>
     \/ /\ Raise("Exception")
        /\ faulted' = TRUE
        /\ UNCHANGED vba_parser
  /\ UNCHANGED <<inputs, calls, macros, retval, idx, temp_dir, temp_file, reported,
                 closeCalls, extractCalls, openCalls, history, cli>>

\* lines 39-40 and 47-48
Detect ==
  /\ pc = "detect"
  /\ \/ /\ detects
        /\ reported' = Append(reported, "MacrosFound")
        /\ pc' = "loop"
        /\ UNCHANGED <<zip_ref, faulted>>
     \/ /\ ~detects
        /\ reported' = Append(reported, "DecoderReportsNone")
        /\ pc' = "close"
        /\ UNCHANGED <<zip_ref, faulted>>
     \/ /\ Raise("Exception")
        /\ faulted' = TRUE
        /\ UNCHANGED reported
  /\ UNCHANGED <<inputs, calls, locals, temp_dir, temp_file, counts, history, cli>>

\* lines 41-46, one step of the generator
ExtractNext ==
  /\ pc = "loop"
  /\ \/ /\ idx < Len(tuples)
        /\ macros' = Append(macros, MacroRecord(tuples[idx + 1]))
        /\ idx' = idx + 1
        /\ UNCHANGED <<pc, zip_ref, faulted>>
     \/ /\ idx = Len(tuples)
        /\ pc' = "close"
        /\ UNCHANGED <<macros, idx, zip_ref, faulted>>
     \/ /\ Raise("Exception")
        /\ faulted' = TRUE
        /\ UNCHANGED <<macros, idx>>
  /\ UNCHANGED <<inputs, calls, retval, vba_parser, temp_dir, temp_file,
                 reported, counts, history, cli>>

\* line 49, then leaving the zip's with block and reaching line 58
CloseDecoder ==
  /\ pc = "close"
  /\ closeCalls' = closeCalls + 1
  /\ \/ /\ vba_parser' = "closed"
        /\ zip_ref' = FALSE
        /\ retval' = macros
        /\ pc' = "release"
        /\ UNCHANGED faulted
     \/ /\ vba_parser' = "closed"     \* the call was made; the handle is given up even if it raises
        /\ Raise("Exception")
        /\ faulted' = TRUE
        /\ UNCHANGED retval
  /\ UNCHANGED <<inputs, calls, macros, idx, temp_dir, temp_file, reported,
                 ctorCalls, extractCalls, openCalls, history, cli>>

\* lines 51-53
HandleBadZip ==
  /\ pc = "except_badzip"
  /\ reported' = Append(reported, "InvalidContainer")
  /\ retval' = HandlerResult(macros)
  /\ pc' = ScopedReturn
  /\ UNCHANGED <<inputs, calls, macros, vba_parser, idx, disk, counts, faulted, history, cli>>

\* lines 54-56
HandleException ==
  /\ pc = "except_other"
  /\ reported' = Append(reported, "UnexpectedFailure")
  /\ retval' = HandlerResult(macros)
  /\ pc' = ScopedReturn
  /\ UNCHANGED <<inputs, calls, macros, vba_parser, idx, disk, counts, faulted, history, cli>>

\* line 25, leaving the with block: the directory tree is removed, or the removal raises
ReleaseTemp ==
  /\ pc = "release"
  /\ \/ /\ temp_dir' = FALSE
        /\ temp_file' = FALSE
        /\ pc' = "return"
        /\ UNCHANGED faulted
     \/ /\ faulted' = TRUE
        /\ pc' = "propagated"
        /\ UNCHANGED <<temp_dir, temp_file>>
  /\ UNCHANGED <<inputs, calls, locals, zip_ref, reported, counts, history, cli>>

\* the value reaches the caller
Return ==
  /\ pc = "return"
  /\ history' = Append(history, [result |-> retval, faulted |-> faulted])
  /\ IF caller = "main"
       THEN /\ extracted_macros' = retval
            /\ pc' = "render"
       ELSE /\ pc' = "idle"
            /\ UNCHANGED extracted_macros
  /\ UNCHANGED <<inputs, calls, locals, disk, reported, counts, faulted, cliOut, exitCode>>

\* ---------------------------------------------------------------- callers
\* a program that imported the module calls the function on the same file
LibCall ==
  /\ pc = "idle"
  /\ calls < MaxCalls
  /\ Enter
  /\ UNCHANGED cli

\* lines 64-71
MainStart ==
  /\ pc = "main"
  /\ IF Len(sys_argv) # 2
       THEN /\ cliOut' = Append(cliOut, <<"Usage">>)
            /\ exitCode' = 1
            /\ pc' = "exited"
            /\ UNCHANGED <<inputs, calls, locals, disk, reported, counts, faulted,
                           history, extracted_macros>>
       ELSE /\ cliOut' = Append(cliOut, <<"Analyzing", sys_argv[2]>>)
            /\ Enter
            /\ UNCHANGED <<extracted_macros, exitCode>>

RenderRecords(ms) ==
  [i \in 1..Len(ms) |-> <<"Macro", i, ms[i].stream_path, ms[i].vba_filename, ms[i].vba_code>>]

\* lines 73-84, then the interpreter leaves with status 0
MainRender ==
  /\ pc = "render"
  /\ IF extracted_macros = <<>>
       THEN cliOut' = Append(cliOut, <<"NoMacrosExtracted">>)
       ELSE cliOut' = cliOut \o <<<<"ExtractedMacros">>>> \o RenderRecords(extracted_macros)
  /\ exitCode' = 0
  /\ pc' = "exited"
  /\ UNCHANGED <<inputs, calls, locals, disk, reported, counts, faulted, history,
                 extracted_macros>>

\* line 71 raising inside main, called at line 87: the interpreter prints the
\* traceback and leaves with status 1
MainUncaught ==
  /\ pc = "propagated"
  /\ caller = "main"
  /\ exitCode' = 1
  /\ pc' = "exited"
  /\ UNCHANGED <<inputs, calls, locals, disk, reported, counts, faulted, history,
                 extracted_macros, cliOut>>

Next ==
  \/ ExistsCheck
  \/ AcquireTemp
  \/ OpenZip
  \/ EntryLookup
  \/ ExtractEntry
  \/ ConstructDecoder
  \/ Detect
  \/ ExtractNext
  \/ CloseDecoder
  \/ HandleBadZip
  \/ HandleException
  \/ ReleaseTemp
  \/ Return
  \/ LibCall
  \/ MainStart
  \/ MainRender
  \/ MainUncaught

Spec == Init /\ [][Next]_vars

\* ---------------------------------------------------------------- properties
HasEntry == file.kind = "zip" /\ vba_project_path_in_zip \in file.names

LastReported == IF reported = <<>> THEN "none" ELSE reported[Len(reported)]

\* the call has handed (or is handing) a value back and no later call has started
Returned == pc \in {"return", "render"} \/ (pc = "idle" /\ calls > 0)

\* C1: the function never propagates a fault: whenever a library call raised,
\* the call returns normally with an empty result and the last reported
\* condition is UnexpectedFailure or InvalidContainer.
NeverPropagatesFault ==
  /\ pc # "propagated"
  /\ (pc = "return" /\ faulted)
       => (retval = <<>> /\ LastReported \in {"UnexpectedFailure", "InvalidContainer"})

\* C2: after the call returns, on every exit path, neither the temporary
\* directory nor the file extracted into it exists.
NoTempAfterReturn == Returned => (~temp_dir /\ ~temp_file)

NoTempAfterReturnWitness ==
  /\ pc = "return"
  /\ extractCalls = 1
  /\ ctorCalls = 1
  /\ LastReported = "UnexpectedFailure"

\* C3: when a decoder was constructed, it was constructed exactly once and
\* close() was called exactly once by the time the call returns, whatever the
\* decoder did.
DecoderClosedExactlyOnce ==
  (pc = "return" /\ vba_parser # "unbound") => (ctorCalls = 1 /\ closeCalls = 1)

\* C4: for a valid archive without xl/vbaProject.bin nothing is ever extracted
\* and the decoder is never constructed; the call returns the empty list and,
\* when no library call failed, reports exactly NoMacroProject.
NoEntryNeverDecodes ==
  (file.kind = "zip" /\ vba_project_path_in_zip \notin file.names)
    => /\ extractCalls = 0
       /\ ctorCalls = 0
       /\ vba_parser = "unbound"
       /\ pc = "return" => retval = <<>>
       /\ (pc = "return" /\ ~faulted) => reported = <<"NoMacroProject">>

NoEntryNeverDecodesWitness ==
  /\ pc = "return"
  /\ file.kind = "zip"
  /\ file.names = {"xl/workbook.xml", "word/vbaProject.bin"}
  /\ reported = <<"NoMacroProject">>

\* C5: for a path with no file behind it the call returns the empty list,
\* reports NotFound and nothing else, opens no archive and never touches the
\* decoder (nor the temporary directory).
MissingFileNotFound ==
  file.kind = "missing"
    => /\ openCalls = 0
       /\ ctorCalls = 0
       /\ ~temp_dir
       /\ pc # "propagated"
       /\ Returned => (retval = <<>> /\ reported = <<"NotFound">>)

MissingFileNotFoundWitness ==
  /\ pc = "return"
  /\ file.kind = "missing"
  /\ reported = <<"NotFound">>

ExpectedRecords ==
  [i \in 1..Len(tuples) |->
     [stream_path |-> tuples[i][2], vba_filename |-> tuples[i][3], vba_code |-> tuples[i][4]]]

RecordsFollowDecoder ==
  /\ (pc = "return" /\ ~faulted /\ HasEntry /\ detects) => retval = ExpectedRecords
  /\ \A i, j \in DOMAIN history :
       (~history[i].faulted /\ ~history[j].faulted) => history[i].result = history[j].result

RecordsFollowDecoderWitness ==
  /\ Len(history) = 2
  /\ ~history[1].faulted
  /\ ~history[2].faulted
  /\ Len(history[2].result) = 2
  /\ history[2].result[1] # history[2].result[2]

\* C8: main exits with a non-zero status, without calling the extractor,
\* exactly when the argument count is not one; with one argument it calls the
\* extractor once and exits with status 0 on every path.
CliExitStatus ==
  pc = "exited"
    => /\ (exitCode # 0) <=> (Len(sys_argv) # 2)
       /\ Len(sys_argv) # 2 => (calls = 0 /\ cliOut = <<<<"Usage">>>>)
       /\ Len(sys_argv) = 2 => calls = 1

\* C9: a failure after records have started to accumulate yields the empty
\* list, not the records collected so far.
NoPartialResult == (pc = "return" /\ faulted) => retval = <<>>

NoPartialResultWitness ==
  /\ pc = "return"
  /\ faulted
  /\ closeCalls = 0
  /\ idx >= 1
  /\ idx < Len(tuples)
  /\ Len(macros) = idx

\* C10: the temporary directory is never gone while a decoder constructed on
\* the file inside it is still open.
CloseBeforeRelease == ~(vba_parser = "open" /\ ~temp_dir)

TypeOK ==
  /\ pc \in {"main", "idle", "exists", "mkdtemp", "open_zip", "namelist", "extract", "ctor",
             "detect", "loop", "close", "except_badzip", "except_other", "release",
             "return", "propagated", "render", "exited"}
  /\ calls \in 0..MaxCalls
  /\ idx \in 0..Len(tuples)
  /\ vba_parser \in {"unbound", "open", "closed"}
  /\ exitCode \in {NoExit, 0, 1}
====
